---------------------------- MODULE Spec2Model ----------------------------
(***************************************************************************)
(* A model of bf-repl (src/src/main.rs): tokenize, parse_loops, the        *)
(* Interpreter's fetch-execute loop, and the two hosts run_repl and        *)
(* run_file.                                                               *)
(*                                                                         *)
(* Addresses (token indices, tape indices) are 0-based as in the source;   *)
(* TLA+ sequences are 1-based, so the token at address a is tokens[a + 1]. *)
(* Text is a sequence of byte values (ASCII).                              *)
(***************************************************************************)
EXTENDS Integers, Sequences, FiniteSets, TLC

VARIABLES
    entry,                \* "repl" | "file": which host main() dispatched to
    pc,                   \* control position, see PcValues
    stdin,                \* bytes of standard input delivered and not yet consumed
    stdin_eof,            \* standard input has ended (no byte will follow stdin)
    supplied,             \* how many chunks the environment has delivered so far
    bf_code,              \* run_file: the file's text; run_repl: the trimmed line
    tokens,               \* the token sequence of the current program
    parse_result,         \* what parse_loops returned for tokens (NoResult before)
    jump_table,           \* the jump table handed to Interpreter::run
    memory,               \* Interpreter.memory, as the map of its non-zero cells
    data_pointer,         \* Interpreter.data_pointer
    instruction_pointer,  \* Interpreter.instruction_pointer
    output,               \* bytes written to stdout by Token::Output
    stderr,               \* messages written by eprintln!, oldest first
    last                  \* history: the instruction executed last (NoStep before)

vars == << entry, pc, stdin, stdin_eof, supplied, bf_code, tokens, parse_result, jump_table, memory,
           data_pointer, instruction_pointer, output, stderr, last >>

(***************************************************************************)
(* Program constants                                                       *)
(***************************************************************************)
MEMORY_SIZE == 30000

\* A read of stdin (or of the file) that fails with an I/O error.
IoError == 0 - 1

PcValues == {"run_file", "run_repl", "run", "exit0", "exit1", "panic",
             "parse_loops", "parsed", "tokenize", "tokenized"}

(***************************************************************************)
(* Text helpers                                                            *)
(***************************************************************************)
Ord(c) ==
    CASE c = ">" -> 62  [] c = "<" -> 60  [] c = "+" -> 43  [] c = "-" -> 45
      [] c = "." -> 46  [] c = "," -> 44  [] c = "[" -> 91  [] c = "]" -> 93
      [] c = " " -> 32  [] c = "x" -> 120 [] c = "\n" -> 10
      [] c = "m" -> 109 [] c = "e" -> 101 [] c = "o" -> 111 [] c = "r" -> 114
      [] c = "y" -> 121 [] c = "q" -> 113 [] c = "u" -> 117 [] c = "i" -> 105
      [] c = "t" -> 116 [] c = "H" -> 72  [] c = "l" -> 108 [] c = "W" -> 87
      [] c = "d" -> 100 [] c = "!" -> 33

Text(s) == [i \in 1..Len(s) |-> Ord(s[i])]

Newline == Ord("\n")

(***************************************************************************)
(* tokenize                                                                *)
(***************************************************************************)
\* TokenOf with a fault: the arms of '>' and '<' are exchanged.
TokenOf_Exchanged(c) ==
    CASE c = 62 -> "DecrementPointer"
      [] c = 60 -> "IncrementPointer"
      [] c = 43 -> "IncrementData"
      [] c = 45 -> "DecrementData"
      [] c = 46 -> "Output"
      [] c = 44 -> "Input"
      [] c = 91 -> "LoopStart"
      [] c = 93 -> "LoopEnd"
      [] OTHER  -> "None"

TokenOf(c) ==
    CASE c = 62 -> "IncrementPointer"
      [] c = 60 -> "DecrementPointer"
      [] c = 43 -> "IncrementData"
      [] c = 45 -> "DecrementData"
      [] c = 46 -> "Output"
      [] c = 44 -> "Input"
      [] c = 91 -> "LoopStart"
      [] c = 93 -> "LoopEnd"
      [] OTHER  -> "None"

\* code.chars().filter_map(..).collect(): the characters that map to Some,
\* in their order, each replaced by its token
tokenize(code) ==
    LET IsSome(c) == TokenOf(c) # "None"
        kept == SelectSeq(code, IsSome)
    IN  [i \in 1..Len(kept) |-> TokenOf(kept[i])]

(***************************************************************************)
(* parse_loops                                                             *)
(***************************************************************************)
NoIndex == 0 - 1
Message(text, i) == [text |-> text, index |-> i]

\* HashMap::new()
EmptyTable == [a \in {} |-> 0]

NoResult == [kind |-> "None", table |-> EmptyTable, err |-> Message("", NoIndex)]
OkTable(t) == [kind |-> "Ok", table |-> t, err |-> Message("", NoIndex)]
Err(text, i) == [kind |-> "Err", table |-> EmptyTable, err |-> Message(text, i)]

\* InsertPair with a fault: only the entry of the ']' is recorded.
InsertPair_EndOnly(table, start_index, i) == (i :> start_index) @@ table

\* InsertPair with a fault: only the entry of the '[' is recorded.
InsertPair_OneWay(table, start_index, i) == (start_index :> i) @@ table

\* jump_table.insert(start_index, i); jump_table.insert(i, start_index)
InsertPair(table, start_index, i) ==
    (i :> start_index) @@ (start_index :> i) @@ table

\* Pop with a fault: the oldest pending '[' leaves the stack (a queue).
Pop_Oldest(loop_stack) ==
    [start_index |-> loop_stack[1], rest |-> Tail(loop_stack)]

\* loop_stack.pop() on a non-empty stack: the last element pushed leaves it
Pop(loop_stack) ==
    [start_index |-> loop_stack[Len(loop_stack)],
     rest |-> SubSeq(loop_stack, 1, Len(loop_stack) - 1)]

\* UnmatchedEndIndex with a fault: the position counted from 1.
UnmatchedEndIndex_OneBased(i) == i + 1

\* the index reported for a ']' met with an empty stack
UnmatchedEndIndex(i) == i

\* UnmatchedStartIndex with a fault: the top of the stack is reported.
UnmatchedStartIndex_Top(loop_stack) == loop_stack[Len(loop_stack)]

\* the index reported when the scan ends with '[' pending: loop_stack[0]
UnmatchedStartIndex(loop_stack) == loop_stack[1]

\* The first address from i on that holds LoopStart or LoopEnd, Len(toks) if
\* there is none: the iterations in between take the `_ => {}` arm.
NextBracket(toks, i) ==
    LET B == { k \in i..(Len(toks) - 1) : toks[k + 1] \in {"LoopStart", "LoopEnd"} }
    IN  IF B = {} THEN Len(toks) ELSE CHOOSE k \in B : \A j \in B : k <= j

\* The for loop of parse_loops from address i on, and the check after it.
RECURSIVE ScanLoops(_, _, _, _)
ScanLoops(toks, i, loop_stack, table) ==
    IF i >= Len(toks)
    THEN IF loop_stack = << >>
         THEN OkTable(table)
         ELSE Err("Unmatched '[' at index", UnmatchedStartIndex(loop_stack))
    ELSE CASE toks[i + 1] = "LoopStart" ->
                ScanLoops(toks, i + 1, Append(loop_stack, i), table)
           [] toks[i + 1] = "LoopEnd" ->
                IF loop_stack # << >>
                THEN ScanLoops(toks, i + 1, Pop(loop_stack).rest,
                               InsertPair(table, Pop(loop_stack).start_index, i))
                ELSE Err("Unmatched ']' at index", UnmatchedEndIndex(i))
           [] OTHER -> ScanLoops(toks, NextBracket(toks, i + 1), loop_stack, table)

parse_loops(toks) == ScanLoops(toks, 0, << >>, EmptyTable)

(***************************************************************************)
(* Interpreter state                                                       *)
(***************************************************************************)
\* vec![0; MEMORY_SIZE]: no cell is non-zero
ZeroMemory == [a \in {} |-> 0]

\* memory[a] for an address on the tape
Cell(mem, a) == IF a \in DOMAIN mem THEN mem[a] ELSE 0

\* Store with a fault: the value is written to the cell right of the address.
Store_Beside(mem, a, v) ==
    IF v = 0 THEN [x \in (DOMAIN mem) \ {a + 1} |-> mem[x]]
    ELSE ((a + 1) :> v) @@ mem

\* memory[a] = v for an address on the tape
Store(mem, a, v) ==
    IF v = 0 THEN [x \in (DOMAIN mem) \ {a} |-> mem[x]]
    ELSE (a :> v) @@ mem

\* Indexing memory[a] panics unless a < memory.len()
OnTape(a) == a >= 0 /\ a < MEMORY_SIZE

\* wrapping_add with a fault: the addition saturates at 255.
wrapping_add_Saturating(v) == IF v = 255 THEN 255 ELSE v + 1

\* u8::wrapping_add(1), u8::wrapping_sub(1)
wrapping_add(v) == (v + 1) % 256
wrapping_sub(v) == (v + 255) % 256

\* print!("{}", v as char): the UTF-8 encoding of the code point v
CharBytes(v) ==
    IF v < 128 THEN << v >>
    ELSE << 192 + (v \div 64), 128 + (v % 64) >>

\* InputValue with a fault: the end of the stream leaves the cell as it is.
InputValue_KeepAtEof(old, eof, byte) == IF eof THEN old ELSE byte

\* The cell value an Input instruction stores: the byte read, 0 at end of stream
InputValue(old, eof, byte) == IF eof THEN 0 ELSE byte

NoStep == [token |-> "None", at |-> NoIndex, dp |-> NoIndex, cell |-> NoIndex,
           outcome |-> "None"]
Step(outcome) ==
    [token |-> tokens[instruction_pointer + 1], at |-> instruction_pointer,
     dp |-> data_pointer,
     cell |-> IF OnTape(data_pointer) THEN Cell(memory, data_pointer) ELSE NoIndex,
     outcome |-> outcome]

(***************************************************************************)
(* Inputs                                                                  *)
(***************************************************************************)
MaxLines == 3
MaxTokens == 7
MaxText == 4

SeqsUpTo(S, n) == UNION { [1..k -> S] : k \in 0..n }

\* Lines a user types at the prompt (each delivered with its newline).
Lines ==
    { Text(s) \o << Newline >> : s \in
        { << >>, <<" ">>, <<"x">>, <<"m","e","m">>, <<"m","e","m","o","r","y">>,
          <<"e","x","i","t">>, <<"q","u","i","t">>,
          <<">">>, <<"<">>, <<"+">>, <<"-">>, <<".">>, <<",">>,
          <<"-",".">>, <<"[">>, <<"]">>, <<"[","-","]">>, <<"+","[","[">> } }

\* Programs that walk the data pointer to an end of the tape, clearing the
\* cells they leave; offered as the first line of a session only.
WalkLines ==
    { Text(s) \o << Newline >> : s \in
        { <<"+","[","-",">","+","]">>, <<"+","[","-","<","+","]">> } }

\* The program that adds: a times '+', '>', b times '+', then "[<+>-]<."
Repeat(c, n) == [i \in 1..n |-> c]
AdderText(a, b) ==
    Text(Repeat("+", a) \o << ">" >> \o Repeat("+", b)
         \o << "[", "<", "+", ">", "-", "]", "<", "." >>)
AdderA == {0, 1, 2, 127, 128, 255}
AdderB == {0, 1, 2, 5}

\* Files handed to run_file.
Files ==
    { Text(s) : s \in
        { << >>, <<"+",".">>, <<"-",".">>, <<",",".">>, <<"+",",",".">>,
          <<",","[",".",",","]">>, <<"-","[","-","]">>, <<"]","+",".">>,
          <<"+",".","[">>, <<"<",">","x",">">> } }
    \cup { AdderText(a, b) : a \in AdderA, b \in AdderB }

\* What standard input delivers to a program run from a file.
FileInput == { << 65 >>, << 200 >>, << 0, 66 >>, << IoError >> }

Chunks ==
    IF entry = "file" THEN FileInput
    ELSE IF supplied = 0 THEN Lines \cup WalkLines \cup { << IoError >> }
    ELSE Lines

(***************************************************************************)
(* read_line, trim                                                         *)
(***************************************************************************)
\* The position of the first newline or failed read in s, 0 if there is none.
RECURSIVE LineEnd(_, _)
LineEnd(s, k) ==
    IF k > Len(s) THEN 0
    ELSE IF s[k] = Newline \/ s[k] = IoError THEN k
    ELSE LineEnd(s, k + 1)

IsSpace(c) == c \in {9, 10, 11, 12, 13, 32}

RECURSIVE trim_start(_)
trim_start(s) ==
    IF s # << >> /\ IsSpace(Head(s)) THEN trim_start(Tail(s)) ELSE s

RECURSIVE trim_end(_)
trim_end(s) ==
    IF s # << >> /\ IsSpace(s[Len(s)]) THEN trim_end(SubSeq(s, 1, Len(s) - 1)) ELSE s

trim(s) == trim_end(trim_start(s))

(***************************************************************************)
(* Initial state: main() has chosen run_file or run_repl                   *)
(***************************************************************************)
Init ==
    /\ entry \in {"repl", "file"}
    /\ pc = IF entry = "repl" THEN "run_repl" ELSE "run_file"
    /\ stdin = << >>
    /\ stdin_eof = FALSE
    /\ supplied = 0
    /\ bf_code \in IF entry = "repl" THEN { << >> } ELSE Files \cup { << IoError >> }
    /\ tokens = << >>
    /\ parse_result = NoResult
    /\ jump_table = EmptyTable
    /\ memory = ZeroMemory
    /\ data_pointer = MEMORY_SIZE \div 2
    /\ instruction_pointer = 0
    /\ output = << >>
    /\ stderr = << >>
    /\ last = NoStep

(***************************************************************************)
(* Standard input: the environment delivers a chunk, or ends the stream,   *)
(* when the program waits in a read with nothing buffered for it.          *)
(***************************************************************************)
Fetching == pc = "run" /\ instruction_pointer < Len(tokens)
Token == tokens[instruction_pointer + 1]

Blocked ==
    /\ ~stdin_eof
    /\ \/ pc = "run_repl" /\ LineEnd(stdin, 1) = 0
       \/ Fetching /\ Token = "Input" /\ stdin = << >>

StdinDelivers ==
    /\ Blocked
    /\ supplied < MaxLines
    /\ \E c \in Chunks : stdin' = stdin \o c
    /\ supplied' = supplied + 1
    /\ UNCHANGED << entry, pc, stdin_eof, bf_code, tokens, parse_result, jump_table,
                    memory, data_pointer, instruction_pointer, output, stderr, last >>

StdinEnds ==
    /\ Blocked
    /\ stdin_eof' = TRUE
    /\ UNCHANGED << entry, pc, stdin, supplied, bf_code, tokens, parse_result,
                    jump_table, memory, data_pointer, instruction_pointer, output,
                    stderr, last >>

(***************************************************************************)
(* run_repl: one action per way an iteration of its loop ends              *)
(***************************************************************************)
\* read_line returns: a whole line is buffered, or the stream has ended
LineReady == pc = "run_repl" /\ (LineEnd(stdin, 1) # 0 \/ stdin_eof)

\* the text read_line appends to input, and what it leaves in stdin
InputLine ==
    IF LineEnd(stdin, 1) = 0 THEN stdin ELSE SubSeq(stdin, 1, LineEnd(stdin, 1))
AfterLine ==
    IF LineEnd(stdin, 1) = 0 THEN << >>
    ELSE SubSeq(stdin, LineEnd(stdin, 1) + 1, Len(stdin))
ReadFails == LineEnd(stdin, 1) # 0 /\ stdin[LineEnd(stdin, 1)] = IoError

Quit == { Text(<<"q","u","i","t">>), Text(<<"e","x","i","t">>) }
Mem == { Text(<<"m","e","m">>), Text(<<"m","e","m","o","r","y">>) }

\* an iteration that runs no program: the line's locals are dropped
ReplLocals(code, toks, res) ==
    /\ bf_code' = code
    /\ tokens' = toks
    /\ parse_result' = res
    /\ jump_table' = res.table

\* read_line fails: run_repl returns Err, main prints it and exits with 1
ReplReadError ==
    /\ LineReady /\ ReadFails
    /\ stdin' = AfterLine
    /\ stderr' = Append(stderr, Message("read error", NoIndex))
    /\ pc' = "exit1"
    /\ UNCHANGED << entry, stdin_eof, supplied, bf_code, tokens, parse_result,
                    jump_table, memory, data_pointer, instruction_pointer, output, last >>

\* bytes_read == 0: break
ReplEof ==
    /\ LineReady /\ ~ReadFails /\ InputLine = << >>
    /\ pc' = "exit0"
    /\ UNCHANGED << entry, stdin, stdin_eof, supplied, bf_code, tokens, parse_result,
                    jump_table, memory, data_pointer, instruction_pointer, output,
                    stderr, last >>

\* bf_code.is_empty(): continue
ReplBlank ==
    /\ LineReady /\ ~ReadFails /\ InputLine # << >>
    /\ trim(InputLine) = << >>
    /\ stdin' = AfterLine
    /\ ReplLocals(<< >>, << >>, NoResult)
    /\ UNCHANGED << entry, pc, stdin_eof, supplied, memory, data_pointer,
                    instruction_pointer, output, stderr, last >>

\* "quit" | "exit": break
ReplQuit ==
    /\ LineReady /\ ~ReadFails
    /\ trim(InputLine) \in Quit
    /\ stdin' = AfterLine
    /\ ReplLocals(trim(InputLine), << >>, NoResult)
    /\ pc' = "exit0"
    /\ UNCHANGED << entry, stdin_eof, supplied, memory, data_pointer,
                    instruction_pointer, output, stderr, last >>

\* "mem" | "memory": print_memory_snapshot(5) reads the tape inside
\* [0, MEMORY_SIZE) only and changes nothing; continue
ReplMem ==
    /\ LineReady /\ ~ReadFails
    /\ trim(InputLine) \in Mem
    /\ stdin' = AfterLine
    /\ ReplLocals(trim(InputLine), << >>, NoResult)
    /\ UNCHANGED << entry, pc, stdin_eof, supplied, memory, data_pointer,
                    instruction_pointer, output, stderr, last >>

IsProgramLine ==
    /\ LineReady /\ ~ReadFails
    /\ trim(InputLine) # << >>
    /\ trim(InputLine) \notin Quit \cup Mem

\* tokens.is_empty(): continue
ReplNoTokens ==
    /\ IsProgramLine
    /\ tokenize(trim(InputLine)) = << >>
    /\ stdin' = AfterLine
    /\ ReplLocals(trim(InputLine), << >>, NoResult)
    /\ UNCHANGED << entry, pc, stdin_eof, supplied, memory, data_pointer,
                    instruction_pointer, output, stderr, last >>

\* ReplParseError with a fault: the Err arm prints and falls through to run.
ReplParseError_Runs ==
    /\ IsProgramLine
    /\ tokenize(trim(InputLine)) # << >>
    /\ parse_loops(tokenize(trim(InputLine))).kind = "Err"
    /\ stdin' = AfterLine
    /\ ReplLocals(trim(InputLine), tokenize(trim(InputLine)),
                  parse_loops(tokenize(trim(InputLine))))
    /\ stderr' = Append(stderr, parse_loops(tokenize(trim(InputLine))).err)
    /\ instruction_pointer' = 0
    /\ pc' = "run"
    /\ last' = NoStep
    /\ UNCHANGED << entry, stdin_eof, supplied, memory, data_pointer, output >>

\* parse_loops returns Err(e): eprintln!("{}", e); continue
ReplParseError ==
    /\ IsProgramLine
    /\ tokenize(trim(InputLine)) # << >>
    /\ parse_loops(tokenize(trim(InputLine))).kind = "Err"
    /\ stdin' = AfterLine
    /\ ReplLocals(trim(InputLine), tokenize(trim(InputLine)),
                  parse_loops(tokenize(trim(InputLine))))
    /\ stderr' = Append(stderr, parse_loops(tokenize(trim(InputLine))).err)
    /\ UNCHANGED << entry, pc, stdin_eof, supplied, memory, data_pointer,
                    instruction_pointer, output, last >>

\* ReplRun with a fault: each line runs on a fresh tape and data pointer.
ReplRun_Fresh ==
    /\ IsProgramLine
    /\ tokenize(trim(InputLine)) # << >>
    /\ parse_loops(tokenize(trim(InputLine))).kind = "Ok"
    /\ stdin' = AfterLine
    /\ ReplLocals(trim(InputLine), tokenize(trim(InputLine)),
                  parse_loops(tokenize(trim(InputLine))))
    /\ instruction_pointer' = 0
    /\ memory' = ZeroMemory
    /\ data_pointer' = 0
    /\ pc' = "run"
    /\ last' = NoStep
    /\ UNCHANGED << entry, stdin_eof, supplied, output, stderr >>

\* parse_loops returns Ok: interpreter.run(&tokens, &jump_table) is entered
\* and sets instruction_pointer = 0
ReplRun ==
    /\ IsProgramLine
    /\ tokenize(trim(InputLine)) # << >>
    /\ parse_loops(tokenize(trim(InputLine))).kind = "Ok"
    /\ stdin' = AfterLine
    /\ ReplLocals(trim(InputLine), tokenize(trim(InputLine)),
                  parse_loops(tokenize(trim(InputLine))))
    /\ instruction_pointer' = 0
    /\ pc' = "run"
    /\ last' = NoStep
    /\ UNCHANGED << entry, stdin_eof, supplied, memory, data_pointer, output, stderr >>

(***************************************************************************)
(* run_file                                                                *)
(***************************************************************************)
\* fs::read_to_string fails: Err("Cannot read ..."), main exits with 1
RunFileUnreadable ==
    /\ pc = "run_file"
    /\ bf_code = << IoError >>
    /\ stderr' = Append(stderr, Message("Cannot read", NoIndex))
    /\ pc' = "exit1"
    /\ UNCHANGED << entry, stdin, stdin_eof, supplied, bf_code, tokens, parse_result,
                    jump_table, memory, data_pointer, instruction_pointer, output, last >>

\* parse_loops(&tokens)? returns the error to main, which prints it and exits with 1
RunFileParseError ==
    /\ pc = "run_file"
    /\ bf_code # << IoError >>
    /\ parse_loops(tokenize(bf_code)).kind = "Err"
    /\ tokens' = tokenize(bf_code)
    /\ parse_result' = parse_loops(tokenize(bf_code))
    /\ jump_table' = parse_result'.table
    /\ stderr' = Append(stderr, parse_result'.err)
    /\ pc' = "exit1"
    /\ UNCHANGED << entry, stdin, stdin_eof, supplied, bf_code, memory, data_pointer,
                    instruction_pointer, output, last >>

\* Interpreter::new(), then interpreter.run(&tokens, &jump_table) is entered
RunFileRun ==
    /\ pc = "run_file"
    /\ bf_code # << IoError >>
    /\ parse_loops(tokenize(bf_code)).kind = "Ok"
    /\ tokens' = tokenize(bf_code)
    /\ parse_result' = parse_loops(tokenize(bf_code))
    /\ jump_table' = parse_result'.table
    /\ memory' = ZeroMemory
    /\ data_pointer' = MEMORY_SIZE \div 2
    /\ instruction_pointer' = 0
    /\ pc' = "run"
    /\ last' = NoStep
    /\ UNCHANGED << entry, stdin, stdin_eof, supplied, bf_code, output, stderr >>

(***************************************************************************)
(* Interpreter::run: one action per Token arm of the loop body, and one    *)
(* for leaving the loop                                                    *)
(***************************************************************************)
\* Continue with a fault: the instruction pointer advances by two.
Continue_Skips(a) ==
    /\ instruction_pointer' = a + 2
    /\ last' = Step("Next")
    /\ UNCHANGED << pc, stderr >>

\* the arm completes: instruction_pointer += 1 (from address a), next iteration
Continue(a) ==
    /\ instruction_pointer' = a + 1
    /\ last' = Step("Next")
    /\ UNCHANGED << pc, stderr >>

\* ReturnErr with a fault: the instruction pointer is advanced before returning.
ReturnErr_Advances(m) ==
    /\ stderr' = Append(stderr, m)
    /\ pc' = IF entry = "repl" THEN "run_repl" ELSE "exit1"
    /\ last' = Step("Err")
    /\ instruction_pointer' = instruction_pointer + 1

\* return Err(m): run_repl prints it and prompts again; run_file returns it
\* to main, which prints it and exits with 1
ReturnErr(m) ==
    /\ stderr' = Append(stderr, m)
    /\ pc' = IF entry = "repl" THEN "run_repl" ELSE "exit1"
    /\ last' = Step("Err")
    /\ UNCHANGED instruction_pointer

\* memory[data_pointer] with data_pointer >= memory.len(): the thread panics
Panic ==
    /\ pc' = "panic"
    /\ last' = Step("Panic")
    /\ UNCHANGED << instruction_pointer, stderr >>

ExecIncrementPointer ==
    /\ Fetching /\ Token = "IncrementPointer"
    /\ data_pointer' = data_pointer + 1
    /\ IF data_pointer' >= MEMORY_SIZE
       THEN ReturnErr(Message("Data pointer out of bounds (right)", NoIndex))
       ELSE Continue(instruction_pointer)
    /\ UNCHANGED << entry, stdin, stdin_eof, supplied, bf_code, tokens, parse_result,
                    jump_table, memory, output >>

ExecDecrementPointer ==
    /\ Fetching /\ Token = "DecrementPointer"
    /\ IF data_pointer = 0
       THEN /\ ReturnErr(Message("Data pointer out of bounds (left)", NoIndex))
            /\ UNCHANGED data_pointer
       ELSE /\ data_pointer' = data_pointer - 1
            /\ Continue(instruction_pointer)
    /\ UNCHANGED << entry, stdin, stdin_eof, supplied, bf_code, tokens, parse_result,
                    jump_table, memory, output >>

ExecIncrementData ==
    /\ Fetching /\ Token = "IncrementData"
    /\ IF OnTape(data_pointer)
       THEN /\ memory' = Store(memory, data_pointer,
                               wrapping_add(Cell(memory, data_pointer)))
            /\ Continue(instruction_pointer)
       ELSE Panic /\ UNCHANGED memory
    /\ UNCHANGED << entry, stdin, stdin_eof, supplied, bf_code, tokens, parse_result,
                    jump_table, data_pointer, output >>

ExecDecrementData ==
    /\ Fetching /\ Token = "DecrementData"
    /\ IF OnTape(data_pointer)
       THEN /\ memory' = Store(memory, data_pointer,
                               wrapping_sub(Cell(memory, data_pointer)))
            /\ Continue(instruction_pointer)
       ELSE Panic /\ UNCHANGED memory
    /\ UNCHANGED << entry, stdin, stdin_eof, supplied, bf_code, tokens, parse_result,
                    jump_table, data_pointer, output >>

\* stdout accepts every write, so flush() returns Ok
ExecOutput ==
    /\ Fetching /\ Token = "Output"
    /\ IF OnTape(data_pointer)
       THEN /\ output' = output \o CharBytes(Cell(memory, data_pointer))
            /\ Continue(instruction_pointer)
       ELSE Panic /\ UNCHANGED output
    /\ UNCHANGED << entry, stdin, stdin_eof, supplied, bf_code, tokens, parse_result,
                    jump_table, memory, data_pointer >>

\* io::stdin().bytes().next(): one byte of stdin, an error, or None at its end
ExecInput ==
    /\ Fetching /\ Token = "Input"
    /\ stdin # << >> \/ stdin_eof
    /\ stdin' = IF stdin = << >> THEN stdin ELSE Tail(stdin)
    /\ IF stdin # << >> /\ Head(stdin) = IoError
       THEN ReturnErr(Message("read error", NoIndex)) /\ UNCHANGED memory
       ELSE IF OnTape(data_pointer)
       THEN /\ memory' = Store(memory, data_pointer,
                               InputValue(Cell(memory, data_pointer), stdin = << >>,
                                          IF stdin = << >> THEN 0 ELSE Head(stdin)))
            /\ Continue(instruction_pointer)
       ELSE Panic /\ UNCHANGED memory
    /\ UNCHANGED << entry, stdin_eof, supplied, bf_code, tokens, parse_result,
                    jump_table, data_pointer, output >>

\* Jump with a fault: the table is not consulted and the step falls through.
Jump_FallsThrough(bracket) == Continue(instruction_pointer)

\* a taken jump: instruction_pointer = jump_table[instruction_pointer], or the
\* error of a missing entry
Jump(bracket) ==
    IF instruction_pointer \in DOMAIN jump_table
    THEN Continue(jump_table[instruction_pointer])
    ELSE ReturnErr(Message(bracket, instruction_pointer))

ExecLoopStart ==
    /\ Fetching /\ Token = "LoopStart"
    /\ IF ~OnTape(data_pointer) THEN Panic
       ELSE IF Cell(memory, data_pointer) = 0
       THEN Jump("Jump table missing entry for '[' at")
       ELSE Continue(instruction_pointer)
    /\ UNCHANGED << entry, stdin, stdin_eof, supplied, bf_code, tokens, parse_result,
                    jump_table, memory, data_pointer, output >>

ExecLoopEnd ==
    /\ Fetching /\ Token = "LoopEnd"
    /\ IF ~OnTape(data_pointer) THEN Panic
       ELSE IF Cell(memory, data_pointer) # 0
       THEN Jump("Jump table missing entry for ']' at")
       ELSE Continue(instruction_pointer)
    /\ UNCHANGED << entry, stdin, stdin_eof, supplied, bf_code, tokens, parse_result,
                    jump_table, memory, data_pointer, output >>

\* the while condition fails: run returns Ok(()). run_repl prints
\* memory[data_pointer] (an index that panics off the tape) and prompts again;
\* run_file returns Ok and main exits with 0
RunReturns ==
    /\ pc = "run" /\ instruction_pointer >= Len(tokens)
    /\ pc' = IF entry = "file" THEN "exit0"
             ELSE IF OnTape(data_pointer) THEN "run_repl" ELSE "panic"
    /\ UNCHANGED << entry, stdin, stdin_eof, supplied, bf_code, tokens, parse_result,
                    jump_table, memory, data_pointer, instruction_pointer, output,
                    stderr, last >>

Next ==
    \/ StdinDelivers \/ StdinEnds
    \/ ReplReadError \/ ReplEof \/ ReplBlank \/ ReplQuit \/ ReplMem
    \/ ReplNoTokens \/ ReplParseError \/ ReplRun
    \/ RunFileUnreadable \/ RunFileParseError \/ RunFileRun
    \/ ExecIncrementPointer \/ ExecDecrementPointer
    \/ ExecIncrementData \/ ExecDecrementData
    \/ ExecOutput \/ ExecInput \/ ExecLoopStart \/ ExecLoopEnd
    \/ RunReturns

Spec == Init /\ [][Next]_vars

\* One iteration of the while loop of run, or its return.
RunStep ==
    \/ ExecIncrementPointer \/ ExecDecrementPointer
    \/ ExecIncrementData \/ ExecDecrementData
    \/ ExecOutput \/ ExecInput \/ ExecLoopStart \/ ExecLoopEnd
    \/ RunReturns

\* run is a single thread that takes its next step whenever it can, and a
\* blocking read of stdin returns (with bytes or with end of input).
FairSpec == Spec /\ WF_vars(RunStep) /\ WF_vars(StdinDelivers \/ StdinEnds)

TypeOK ==
    /\ pc \in PcValues
    /\ data_pointer \in Nat
    /\ instruction_pointer \in Nat
    /\ \A a \in DOMAIN memory : OnTape(a) /\ memory[a] \in 1..255
    /\ \A i \in 1..Len(output) : output[i] \in 0..255

(***************************************************************************)
(* parse_loops on its own: applied to every token sequence of a bounded    *)
(* set. Every token other than LoopStart and LoopEnd takes the `_ => {}`   *)
(* arm, so IncrementData stands for them; the sequences of the source's    *)
(* two tests are added as they are.                                        *)
(***************************************************************************)
LoopTokens == {"LoopStart", "LoopEnd", "IncrementData"}

TestUnmatchedStart == tokenize(Text(<<"[","<",">","]","+","+","[">>))
TestUnmatchedEnd == tokenize(Text(<<"[","<",">","]","+","+","[","]","]">>))

ParseInputs ==
    SeqsUpTo(LoopTokens, MaxTokens) \cup {TestUnmatchedStart, TestUnmatchedEnd}

ParseInit ==
    /\ entry = "parse"
    /\ pc = "parse_loops"
    /\ tokens \in ParseInputs
    /\ stdin = << >>
    /\ stdin_eof = FALSE
    /\ supplied = 0
    /\ bf_code = << >>
    /\ parse_result = NoResult
    /\ jump_table = EmptyTable
    /\ memory = ZeroMemory
    /\ data_pointer = MEMORY_SIZE \div 2
    /\ instruction_pointer = 0
    /\ output = << >>
    /\ stderr = << >>
    /\ last = NoStep

ParseApply ==
    /\ pc = "parse_loops"
    /\ parse_result' = parse_loops(tokens)
    /\ pc' = "parsed"
    /\ UNCHANGED << entry, stdin, stdin_eof, supplied, bf_code, tokens, jump_table,
                    memory, data_pointer, instruction_pointer, output, stderr, last >>

ParseNext == ParseApply

ParseSpec == ParseInit /\ [][ParseNext]_vars

(***************************************************************************)
(* Bracket structure of the token sequence, by counting                    *)
(***************************************************************************)
TokAt(a) == tokens[a + 1]
Addresses == 0..(Len(tokens) - 1)
Count(tok, lo, hi) == Cardinality({ k \in lo..hi : TokAt(k) = tok })
Min(S) == CHOOSE x \in S : \A y \in S : x <= y
Max(S) == CHOOSE x \in S : \A y \in S : x >= y

\* addresses at which the ']' seen so far outnumber the '['
ExcessClose ==
    { k \in Addresses : Count("LoopEnd", 0, k) > Count("LoopStart", 0, k) }

\* the '[' that no later ']' closes
Pending ==
    { a \in Addresses :
        /\ TokAt(a) = "LoopStart"
        /\ \A b \in (a + 1)..(Len(tokens) - 1) :
              Count("LoopEnd", a + 1, b) <= Count("LoopStart", a + 1, b) }

\* the tokens strictly between a and b nest properly
Nested(a, b) ==
    /\ Count("LoopStart", a + 1, b - 1) = Count("LoopEnd", a + 1, b - 1)
    /\ \A k \in (a + 1)..(b - 1) :
          Count("LoopEnd", a + 1, k) <= Count("LoopStart", a + 1, k)

ParsedOk == parse_result.kind = "Ok"
ParsedErr(text) == parse_result.kind = "Err" /\ parse_result.err.text = text

(***************************************************************************)
(* C4: when parse_loops returns Ok, the keys of the jump table are exactly *)
(* the addresses holding LoopStart or LoopEnd, table[table[a]] = a for     *)
(* every key a, and a LoopStart maps to a LoopEnd and a LoopEnd to a       *)
(* LoopStart.                                                              *)
(***************************************************************************)
C4_TableSymmetricComplete ==
    ParsedOk =>
        LET t == parse_result.table IN
        /\ DOMAIN t = { a \in Addresses : TokAt(a) \in {"LoopStart", "LoopEnd"} }
        /\ \A a \in DOMAIN t :
              /\ t[a] \in DOMAIN t
              /\ t[t[a]] = a
              /\ TokAt(a) # TokAt(t[a])

C4_Witness ==
    /\ pc = "parsed" /\ ParsedOk
    /\ \E a, b \in DOMAIN parse_result.table :
          /\ a < b
          /\ b < parse_result.table[b]
          /\ parse_result.table[b] < parse_result.table[a]

(***************************************************************************)
(* C5: when parse_loops returns Ok, every LoopStart at a is mapped to a    *)
(* later LoopEnd b such that the tokens strictly between them hold as many *)
(* LoopStart as LoopEnd and no prefix of them holds more LoopEnd than      *)
(* LoopStart.                                                              *)
(***************************************************************************)
C5_LexicalMatch ==
    ParsedOk =>
        \A a \in Addresses :
            TokAt(a) = "LoopStart" =>
                /\ a \in DOMAIN parse_result.table
                /\ a < parse_result.table[a]
                /\ TokAt(parse_result.table[a]) = "LoopEnd"
                /\ Nested(a, parse_result.table[a])

C5_Witness ==
    /\ pc = "parsed" /\ ParsedOk
    /\ \E a \in Addresses :
          /\ TokAt(a) = "LoopStart" /\ TokAt(a + 1) = "LoopStart"
          /\ parse_result.table[a + 1] + 1 < parse_result.table[a]
          /\ TokAt(parse_result.table[a + 1] + 1) = "LoopStart"

(***************************************************************************)
(* C6: parse_loops returns the unmatched-']' error exactly when some       *)
(* prefix of the tokens holds more LoopEnd than LoopStart, and the index   *)
(* it reports is the first address at which that happens.                  *)
(***************************************************************************)
C6_UnmatchedEnd ==
    parse_result.kind # "None" =>
        /\ ParsedErr("Unmatched ']' at index") <=> ExcessClose # {}
        /\ ExcessClose # {} => parse_result.err.index = Min(ExcessClose)

C6_Witness ==
    /\ pc = "parsed"
    /\ tokens = TestUnmatchedEnd
    /\ ParsedErr("Unmatched ']' at index")
    /\ parse_result.err.index = 8

(***************************************************************************)
(* C7 as amended: when the scan ends with LoopStart pending, parse_loops   *)
(* returns the unmatched-'[' error and the index it reports is the address *)
(* of the outermost (earliest opened) LoopStart still unmatched.           *)
(***************************************************************************)
C7_UnmatchedStartOutermost ==
    (parse_result.kind # "None" /\ ExcessClose = {} /\ Pending # {}) =>
        /\ ParsedErr("Unmatched '[' at index")
        /\ parse_result.err.index = Min(Pending)

C7_Witness ==
    /\ pc = "parsed"
    /\ ParsedErr("Unmatched '[' at index")
    /\ Cardinality(Pending) >= 2
    /\ parse_result.err.index = Min(Pending)

\* C7 as stated: the index reported is the address of the innermost (most
\* recently opened) LoopStart still unmatched.
C7_Original ==
    (parse_result.kind # "None" /\ ExcessClose = {} /\ Pending # {}) =>
        /\ ParsedErr("Unmatched '[' at index")
        /\ parse_result.err.index = Max(Pending)

(***************************************************************************)
(* Steps of Interpreter::run, as seen from outside                         *)
(***************************************************************************)
\* the instruction about to be executed is tok
Executes(tok) == Fetching /\ Token = tok

\* the step completed its arm and run goes on with the next address
GoesOn ==
    /\ pc' = "run"
    /\ instruction_pointer' = instruction_pointer + 1
    /\ stderr' = stderr

\* the step made run return Err(text)
Returns(text) ==
    /\ pc' # "run" /\ pc' # "panic"
    /\ stderr' = Append(stderr, Message(text, NoIndex))

(***************************************************************************)
(* C1: in every state reachable through Interpreter::run (inside a run,    *)
(* after a run that returned a bounds error, in later runs on the same     *)
(* Interpreter) the data pointer lies in [0, MEMORY_SIZE).                 *)
(***************************************************************************)
C1_PointerOnTape == data_pointer >= 0 /\ data_pointer < MEMORY_SIZE

(***************************************************************************)
(* C2: DecrementPointer makes run return the left bounds error exactly     *)
(* when the data pointer is 0, IncrementPointer makes it return the right  *)
(* bounds error exactly when the data pointer is MEMORY_SIZE - 1; in every *)
(* other case the pointer moves by exactly 1 and run goes on.              *)
(***************************************************************************)
C2_BoundsErrorsExact ==
    [][ /\ Executes("DecrementPointer") =>
             IF data_pointer = 0
             THEN Returns("Data pointer out of bounds (left)")
             ELSE data_pointer' = data_pointer - 1 /\ GoesOn
        /\ Executes("IncrementPointer") =>
             IF data_pointer = MEMORY_SIZE - 1
             THEN Returns("Data pointer out of bounds (right)")
             ELSE data_pointer' = data_pointer + 1 /\ GoesOn
      ]_vars

(***************************************************************************)
(* C3: for every cell value v in 0..255, one Output instruction appends    *)
(* exactly one byte to the output stream, and that byte equals v.          *)
(***************************************************************************)
C3_OutputOneByte ==
    [][ (Executes("Output") /\ OnTape(data_pointer)) =>
            output' = Append(output, Cell(memory, data_pointer))
      ]_vars

(***************************************************************************)
(* C8: a program on which parse_loops fails is never executed: the step    *)
(* that finds the failure does not enter Interpreter::run, executes no     *)
(* instruction, emits no output and leaves the tape and the data pointer   *)
(* as they were, and run is only ever entered with an Ok result.           *)
(***************************************************************************)
C8_NoRunAfterParseError ==
    [][ /\ parse_result'.kind = "Err" =>
              /\ pc' # "run"
              /\ last' = last
              /\ output' = output
              /\ memory' = memory
              /\ data_pointer' = data_pointer
        /\ pc' = "run" => parse_result'.kind = "Ok"
      ]_vars

C8_Witness ==
    /\ entry = "repl" /\ pc = "run_repl"
    /\ parse_result.kind = "Err"
    /\ stderr # << >> /\ stderr[Len(stderr)] = parse_result.err
    /\ memory # ZeroMemory

(***************************************************************************)
(* C9: IncrementData on a cell holding v leaves (v + 1) mod 256 in it and  *)
(* DecrementData leaves (v - 1) mod 256; neither fails, whatever v is.     *)
(***************************************************************************)
C9_CellArithmeticWraps ==
    [][ /\ (Executes("IncrementData") /\ OnTape(data_pointer)) =>
              /\ GoesOn
              /\ Cell(memory', data_pointer) = (Cell(memory, data_pointer) + 1) % 256
        /\ (Executes("DecrementData") /\ OnTape(data_pointer)) =>
              /\ GoesOn
              /\ Cell(memory', data_pointer) = (Cell(memory, data_pointer) - 1) % 256
      ]_vars

C9_Witness ==
    /\ last.token = "IncrementData" /\ last.outcome = "Next"
    /\ last.cell = 255
    /\ Cell(memory, last.dp) = 0

(***************************************************************************)
(* C10: an Input instruction at the end of the input stream sets the       *)
(* current cell to 0 whatever it held, returns no error and run goes on;   *)
(* with a byte b available it consumes exactly that byte and sets the      *)
(* current cell to b.                                                      *)
(***************************************************************************)
C10_InputEofZero ==
    [][ (Executes("Input") /\ OnTape(data_pointer)) =>
            /\ (stdin = << >> /\ stdin_eof) =>
                  /\ Cell(memory', data_pointer) = 0
                  /\ stdin' = stdin
                  /\ GoesOn
            /\ (stdin # << >> /\ Head(stdin) # IoError) =>
                  /\ Cell(memory', data_pointer) = Head(stdin)
                  /\ stdin' = Tail(stdin)
                  /\ GoesOn
      ]_vars

C10_Witness ==
    /\ last.token = "Input" /\ last.outcome = "Next"
    /\ last.cell > 0
    /\ stdin_eof /\ stdin = << >>
    /\ Cell(memory, last.dp) = 0

(***************************************************************************)
(* C11: with the jump table parse_loops returned for the tokens, a         *)
(* LoopStart at a on a zero cell is followed by the fetch at table[a] + 1, *)
(* a LoopEnd at b on a non-zero cell by the fetch at table[b] + 1; a       *)
(* LoopStart on a non-zero cell, a LoopEnd on a zero cell and every other  *)
(* instruction that does not fault are followed by the fetch at the        *)
(* current address + 1.                                                    *)
(***************************************************************************)
C11_NextFetch ==
    [][ /\ (Executes("LoopStart") /\ OnTape(data_pointer)) =>
              /\ pc' = "run"
              /\ instruction_pointer' =
                    IF Cell(memory, data_pointer) = 0
                    THEN parse_result.table[instruction_pointer] + 1
                    ELSE instruction_pointer + 1
        /\ (Executes("LoopEnd") /\ OnTape(data_pointer)) =>
              /\ pc' = "run"
              /\ instruction_pointer' =
                    IF Cell(memory, data_pointer) # 0
                    THEN parse_result.table[instruction_pointer] + 1
                    ELSE instruction_pointer + 1
        /\ (Fetching /\ Token \notin {"LoopStart", "LoopEnd"} /\ ~Blocked
                     /\ pc' = "run") =>
              instruction_pointer' = instruction_pointer + 1
      ]_vars

C11_Witness ==
    /\ pc = "run"
    /\ last.token = "LoopEnd" /\ last.outcome = "Next" /\ last.cell > 0
    /\ parse_result.table[last.at] + 1 < last.at
    /\ instruction_pointer = parse_result.table[last.at] + 1

(***************************************************************************)
(* C13: on a fresh Interpreter the program of a times '+', '>', b times    *)
(* '+' and "[<+>-]<." ends with Ok, leaves (a + b) mod 256 in the starting *)
(* cell and 0 in its right neighbour, and has written the single byte      *)
(* (a + b) mod 256.                                                        *)
(***************************************************************************)
C13_AdderWritesSum ==
    \A a \in AdderA, b \in AdderB :
        (entry = "file" /\ bf_code = AdderText(a, b) /\ pc \notin {"run_file", "run"}) =>
            /\ pc = "exit0"
            /\ Cell(memory, MEMORY_SIZE \div 2) = (a + b) % 256
            /\ Cell(memory, (MEMORY_SIZE \div 2) + 1) = 0
            /\ output = << (a + b) % 256 >>

(***************************************************************************)
(* tokenize on its own: applied to every text of a bounded set over the    *)
(* eight symbols, a letter and a space, and to the texts of the source's   *)
(* tests.                                                                  *)
(***************************************************************************)
TextAlphabet ==
    { Ord(c) : c \in {">", "<", "+", "-", ".", ",", "[", "]", "x", " "} }

TestBasic == Text(<<"+","-",">","<",".",",","[","]">>)
TestWithComments ==
    Text(<<"+","+"," ","H","e","l","l","o"," ","W","o","r","l","d","!"," ",
           "[","<","]">>)

TokenizeInputs == SeqsUpTo(TextAlphabet, MaxText) \cup {TestBasic, TestWithComments}

TokenizeInit ==
    /\ entry = "tokenize"
    /\ pc = "tokenize"
    /\ bf_code \in TokenizeInputs
    /\ tokens = << >>
    /\ stdin = << >>
    /\ stdin_eof = FALSE
    /\ supplied = 0
    /\ parse_result = NoResult
    /\ jump_table = EmptyTable
    /\ memory = ZeroMemory
    /\ data_pointer = MEMORY_SIZE \div 2
    /\ instruction_pointer = 0
    /\ output = << >>
    /\ stderr = << >>
    /\ last = NoStep

TokenizeApply ==
    /\ pc = "tokenize"
    /\ tokens' = tokenize(bf_code)
    /\ pc' = "tokenized"
    /\ UNCHANGED << entry, stdin, stdin_eof, supplied, bf_code, parse_result,
                    jump_table, memory, data_pointer, instruction_pointer, output,
                    stderr, last >>

TokenizeNext == TokenizeApply

TokenizeSpec == TokenizeInit /\ [][TokenizeNext]_vars

\* The eight symbols and the instruction each stands for (enum Token).
Symbols == Text(<<">", "<", "+", "-", ".", ",", "[", "]">>)
Instructions ==
    << "IncrementPointer", "DecrementPointer", "IncrementData", "DecrementData",
       "Output", "Input", "LoopStart", "LoopEnd" >>
IsSymbol(c) == \E k \in 1..Len(Symbols) : Symbols[k] = c
InstructionOf(c) == Instructions[CHOOSE k \in 1..Len(Symbols) : Symbols[k] = c]

\* how many of the first i characters of the text are symbols
Rank(i) == Cardinality({ j \in 1..i : IsSymbol(bf_code[j]) })

(***************************************************************************)
(* C14: tokenize returns exactly the characters of the text that are among *)
(* the eight symbols, each as its instruction, in their order: as many     *)
(* tokens as symbols in the text, the k-th token being the instruction of  *)
(* the k-th symbol; a text without symbols gives the empty sequence.       *)
(***************************************************************************)
C14_TokenizeSubsequence ==
    pc = "tokenized" =>
        /\ Len(tokens) = Rank(Len(bf_code))
        /\ \A i \in 1..Len(bf_code) :
              IsSymbol(bf_code[i]) => tokens[Rank(i)] = InstructionOf(bf_code[i])

C14_Witness ==
    /\ pc = "tokenized"
    /\ bf_code = TestWithComments
    /\ tokens = << "IncrementData", "IncrementData", "LoopStart",
                   "DecrementPointer", "LoopEnd" >>

(***************************************************************************)
(* C15: when run returns an error it stops at the offending instruction:   *)
(* the tape is the tape before that instruction, nothing more is written   *)
(* to the output, the instruction pointer still holds the address of the   *)
(* offending instruction, and the process that exits with the error        *)
(* executes nothing afterwards.                                            *)
(***************************************************************************)
C15_ErrorAbortsInPlace ==
    [][ /\ (Fetching /\ pc' \notin {"run", "panic"}) =>
              /\ stderr' # stderr
              /\ memory' = memory
              /\ output' = output
              /\ instruction_pointer' = instruction_pointer
        /\ pc # "exit1"
      ]_vars

C15_Witness ==
    /\ pc = "exit1"
    /\ last.token = "Input" /\ last.outcome = "Err"
    /\ instruction_pointer = last.at /\ last.at > 0
    /\ output # << >>
    /\ memory # ZeroMemory

(***************************************************************************)
(* C16: a run always uses the table parse_loops returned Ok for its token  *)
(* sequence, and with it the error "Jump table missing entry" never        *)
(* occurs: every '[' fetched on a zero cell and every ']' fetched on a     *)
(* non-zero cell has an entry in the table.                                *)
(***************************************************************************)
JumpTaken ==
    /\ Fetching /\ OnTape(data_pointer)
    /\ \/ Token = "LoopStart" /\ Cell(memory, data_pointer) = 0
       \/ Token = "LoopEnd" /\ Cell(memory, data_pointer) # 0

MissingEntryTexts ==
    {"Jump table missing entry for '[' at", "Jump table missing entry for ']' at"}

C16_NoMissingEntry ==
    /\ pc = "run" => /\ parse_loops(tokens).kind = "Ok"
                     /\ jump_table = parse_loops(tokens).table
    /\ JumpTaken => instruction_pointer \in DOMAIN jump_table
    /\ \A k \in 1..Len(stderr) : stderr[k].text \notin MissingEntryTexts

C16_Witness ==
    /\ pc = "run"
    /\ last.token = "LoopStart" /\ last.cell = 0 /\ last.outcome = "Next"
    /\ last.at \in DOMAIN jump_table
    /\ instruction_pointer = jump_table[last.at] + 1
    /\ stderr = << >>

(***************************************************************************)
(* C17: the frame of each instruction. run never modifies the token        *)
(* sequence or the jump table; '>', '<', '.', '[' and ']' leave every cell *)
(* unchanged; '+', '-' and ',' change at most the cell at the data pointer *)
(* and leave the other cells and the data pointer unchanged; '.', '[' and  *)
(* ']' leave the data pointer unchanged.                                   *)
(***************************************************************************)
SameCellsExcept(a) ==
    \A x \in ((DOMAIN memory) \cup (DOMAIN memory')) \ {a} :
        Cell(memory', x) = Cell(memory, x)

C17_Frame ==
    [][ pc = "run" =>
          /\ tokens' = tokens
          /\ jump_table' = jump_table
          /\ (Fetching /\ Token \in {"IncrementPointer", "DecrementPointer", "Output",
                                     "LoopStart", "LoopEnd"})
                => memory' = memory
          /\ (Fetching /\ Token \in {"IncrementData", "DecrementData", "Input"})
                => /\ SameCellsExcept(data_pointer)
                   /\ data_pointer' = data_pointer
          /\ (Fetching /\ Token \in {"Output", "LoopStart", "LoopEnd"})
                => data_pointer' = data_pointer
      ]_vars

C17_Witness ==
    /\ pc = "run"
    /\ last.token = "IncrementData" /\ last.outcome = "Next"
    /\ data_pointer = last.dp
    /\ Cell(memory, data_pointer) = wrapping_add(last.cell)
    /\ \E x \in DOMAIN memory : x # data_pointer

(***************************************************************************)
(* C18: in a REPL session nothing between two runs touches the tape or the *)
(* data pointer: whatever the line read (blank, without instructions,      *)
(* "mem"/"memory", unbalanced brackets, or a program), the tape and the    *)
(* data pointer stay as the previous run left them, whether it returned Ok *)
(* or an error, and a run that starts does so at instruction pointer 0.    *)
(***************************************************************************)
C18_ReplKeepsTape ==
    [][ (entry = "repl" /\ pc = "run_repl") =>
          /\ memory' = memory
          /\ data_pointer' = data_pointer
          /\ pc' = "run" => instruction_pointer' = 0 /\ last' = NoStep
      ]_vars

C18_Witness ==
    /\ entry = "repl" /\ pc = "run"
    /\ last = NoStep /\ instruction_pointer = 0
    /\ memory # ZeroMemory
    /\ stderr # << >>
    /\ stderr[Len(stderr)].text = "Data pointer out of bounds (left)"

(***************************************************************************)
(* C19: with n the length of the token sequence, the instruction pointer   *)
(* of a run is always within 0..n, an instruction is fetched only at an    *)
(* address below n, and run returns Ok exactly when the instruction        *)
(* pointer equals n.                                                       *)
(***************************************************************************)
C19_InstructionPointerRange ==
    [][ /\ pc' = "run" => instruction_pointer' \in 0..Len(tokens')
        /\ pc = "run" =>
             /\ last' # last =>
                  /\ instruction_pointer < Len(tokens)
                  /\ last'.at = instruction_pointer
             /\ instruction_pointer = Len(tokens) =>
                  /\ pc' # "run" /\ stderr' = stderr /\ last' = last
                  /\ instruction_pointer' = instruction_pointer
             /\ (pc' \notin {"run", "panic"} /\ stderr' = stderr) =>
                  instruction_pointer = Len(tokens)
      ]_vars

C19_Witness ==
    /\ pc = "run"
    /\ instruction_pointer = Len(tokens)
    /\ last.token = "LoopStart" /\ last.cell = 0
    /\ last.at + 2 < Len(tokens)

(***************************************************************************)
(* C20: a run of a token sequence without '[' and ']' executes address 0,  *)
(* 1, 2, ... each once and in this order (so at most n instruction steps,  *)
(* and n of them when it returns Ok), ends by returning Ok or an error,    *)
(* and does end, provided each blocking read returns.                      *)
(***************************************************************************)
LoopFree ==
    \A k \in 1..Len(tokens) : tokens[k] \notin {"LoopStart", "LoopEnd"}

\* the steps of a run so far are the addresses 0 .. instruction_pointer - 1
C20_InOrder ==
    (pc = "run" /\ LoopFree) =>
        \/ last = NoStep /\ instruction_pointer = 0
        \/ /\ last # NoStep /\ last.outcome = "Next"
           /\ instruction_pointer = last.at + 1

C20_EndsHaltedOrFaulted ==
    [][ (pc = "run" /\ LoopFree) => pc' # "panic" ]_vars

C20_Terminates == (pc = "run" /\ LoopFree) ~> (pc # "run")

C20_LoopFreeRunEnds ==
    /\ []C20_InOrder
    /\ C20_EndsHaltedOrFaulted
    /\ C20_Terminates

=============================================================================
